---- MODULE Spec2Model ----
(***************************************************************************)
(* Earthquake dashboard: the cross-filter coordination of main.js          *)
(* (src/unnamed/part_000) and of the LeafletMap class (src/js/layout.js).  *)
(*                                                                         *)
(* Every event handler is one atomic action (the page is single threaded). *)
(* A handler that raises an exception keeps the assignments made before    *)
(* the raise and loses the rest, exactly as the browser does.              *)
(*                                                                         *)
(* Time is an integer number of ticks, TicksPerDay ticks to a day, counted *)
(* from 2015-01-01 00:00 (local time).  Months are numbered from January   *)
(* 2015 (month 0), so month 60 is January 2020.                            *)
(***************************************************************************)
EXTENDS Integers, Sequences, FiniteSets, TLC

\* ------------------------------------------------------------------------
\* Bounds of the model
\* ------------------------------------------------------------------------
TicksPerDay == 2
MagScale == 10
MaxMagLabels == 1
MaxDepthLabels == 1
MaxCoord == 0
TrackWidth == 4
MaxMonth == 75

\* ------------------------------------------------------------------------
\* Calendar (what Date(year, month, day), getFullYear, getMonth and
\* d3.timeFormat compute)
\* ------------------------------------------------------------------------
YearOfMonth(M) == 2015 + (M \div 12)

IsLeap(y) == (y % 4 = 0 /\ y % 100 # 0) \/ y % 400 = 0

DaysInMonth(M) ==
  LET m == M % 12 IN
  IF m = 1 THEN (IF IsLeap(YearOfMonth(M)) THEN 29 ELSE 28)
  ELSE IF m \in {3, 5, 8, 10} THEN 30 ELSE 31

RECURSIVE MonthStartDayRec(_)
MonthStartDayRec(M) == IF M = 0 THEN 0 ELSE MonthStartDayRec(M - 1) + DaysInMonth(M - 1)

MonthStartDay == [M \in 0..(MaxMonth + 1) |-> MonthStartDayRec(M)]

\* new Date(year, month, 1): midnight that opens month M
MonthStart(M) == MonthStartDay[M] * TicksPerDay

\* new Date(year, month + 1, 0): midnight that opens the LAST DAY of month M
MonthLastDayMidnight(M) == (MonthStartDay[M + 1] - 1) * TicksPerDay

\* the day a time falls on (key of "%Y-%m-%d")
DayOf(t) == t \div TicksPerDay

\* the month a time falls in (getFullYear, getMonth; key of "%Y-%m")
MonthOf(t) == CHOOSE M \in 0..MaxMonth :
                 MonthStartDay[M] <= DayOf(t) /\ DayOf(t) < MonthStartDay[M + 1]

\* a time given as month, day of the month (from 1) and tick of the day
At(M, day, tick) == (MonthStartDay[M] + day - 1) * TicksPerDay + tick

\* new Date("1995-01-01"): 7305 days before 2015-01-01
Date1995 == 0 - 7305 * TicksPerDay

\* new Date(): the present, later than every event of the data file
DateNow == MonthStart(MaxMonth)

\* new Date(undefined): Invalid Date; every comparison with it is false
InvalidDate == Date1995 - 1

\* d.time >= a and d.time <= b on Date objects
DateGE(a, b) == a # InvalidDate /\ b # InvalidDate /\ a >= b
DateLE(a, b) == a # InvalidDate /\ b # InvalidDate /\ a <= b

\* ------------------------------------------------------------------------
\* Magnitude and depth buckets
\* ------------------------------------------------------------------------
\* +d.mag of a field that is not a number
NaN == 0 - 1000000

MagLabelOrder == <<"3.0-3.9", "4.0-4.9", "5.0-5.9", "6.0-6.9", "7.0-7.9", "8.0+">>
DepthLabelOrder == <<"0-10km", "10-30km", "30-70km", "70-300km", "300km+">>

MagLabels == {MagLabelOrder[i] : i \in DOMAIN MagLabelOrder}
DepthLabels == {DepthLabelOrder[i] : i \in DOMAIN DepthLabelOrder}

\* a >= k and a < k on numbers, false when a is NaN
NumGE(a, k) == a # NaN /\ a >= k
NumLT(a, k) == a # NaN /\ a < k

\* a label function whose last bucket starts above 8.0
getMagnitudeLabelTopOpen(mag) ==
  IF NumGE(mag, 3 * MagScale) /\ NumLT(mag, 4 * MagScale) THEN "3.0-3.9"
  ELSE IF NumGE(mag, 4 * MagScale) /\ NumLT(mag, 5 * MagScale) THEN "4.0-4.9"
  ELSE IF NumGE(mag, 5 * MagScale) /\ NumLT(mag, 6 * MagScale) THEN "5.0-5.9"
  ELSE IF NumGE(mag, 6 * MagScale) /\ NumLT(mag, 7 * MagScale) THEN "6.0-6.9"
  ELSE IF NumGE(mag, 7 * MagScale) /\ NumLT(mag, 8 * MagScale) THEN "7.0-7.9"
  ELSE IF NumGE(mag, 8 * MagScale + 1) THEN "8.0+"
  ELSE "Other"

getMagnitudeLabel(mag) ==
  IF NumGE(mag, 3 * MagScale) /\ NumLT(mag, 4 * MagScale) THEN "3.0-3.9"
  ELSE IF NumGE(mag, 4 * MagScale) /\ NumLT(mag, 5 * MagScale) THEN "4.0-4.9"
  ELSE IF NumGE(mag, 5 * MagScale) /\ NumLT(mag, 6 * MagScale) THEN "5.0-5.9"
  ELSE IF NumGE(mag, 6 * MagScale) /\ NumLT(mag, 7 * MagScale) THEN "6.0-6.9"
  ELSE IF NumGE(mag, 7 * MagScale) /\ NumLT(mag, 8 * MagScale) THEN "7.0-7.9"
  ELSE IF NumGE(mag, 8 * MagScale) THEN "8.0+"
  ELSE "Other"

getDepthLabel(depth) ==
  IF NumGE(depth, 0) /\ NumLT(depth, 10) THEN "0-10km"
  ELSE IF NumGE(depth, 10) /\ NumLT(depth, 30) THEN "10-30km"
  ELSE IF NumGE(depth, 30) /\ NumLT(depth, 70) THEN "30-70km"
  ELSE IF NumGE(depth, 70) /\ NumLT(depth, 300) THEN "70-300km"
  ELSE IF NumGE(depth, 300) THEN "300km+"
  ELSE "Other"

\* data.forEach with the if / else-if chain: at most one bucket per event
RECURSIVE MagnitudeFold(_, _)
MagnitudeFold(data, buckets) ==
  IF data = <<>> THEN buckets
  ELSE LET mag == Head(data).mag
           hit == IF NumGE(mag, 3 * MagScale) /\ NumLT(mag, 4 * MagScale) THEN "3.0-3.9"
                  ELSE IF NumGE(mag, 4 * MagScale) /\ NumLT(mag, 5 * MagScale) THEN "4.0-4.9"
                  ELSE IF NumGE(mag, 5 * MagScale) /\ NumLT(mag, 6 * MagScale) THEN "5.0-5.9"
                  ELSE IF NumGE(mag, 6 * MagScale) /\ NumLT(mag, 7 * MagScale) THEN "6.0-6.9"
                  ELSE IF NumGE(mag, 7 * MagScale) /\ NumLT(mag, 8 * MagScale) THEN "7.0-7.9"
                  ELSE IF NumGE(mag, 8 * MagScale) THEN "8.0+"
                  ELSE "none"
       IN MagnitudeFold(Tail(data),
                        IF hit = "none" THEN buckets ELSE [buckets EXCEPT ![hit] = @ + 1])

getMagnitudeBuckets(data) == MagnitudeFold(data, [l \in MagLabels |-> 0])

RECURSIVE DepthFold(_, _)
DepthFold(data, buckets) ==
  IF data = <<>> THEN buckets
  ELSE LET depth == Head(data).depth
           hit == IF NumGE(depth, 0) /\ NumLT(depth, 10) THEN "0-10km"
                  ELSE IF NumGE(depth, 10) /\ NumLT(depth, 30) THEN "10-30km"
                  ELSE IF NumGE(depth, 30) /\ NumLT(depth, 70) THEN "30-70km"
                  ELSE IF NumGE(depth, 70) /\ NumLT(depth, 300) THEN "70-300km"
                  ELSE IF NumGE(depth, 300) THEN "300km+"
                  ELSE "none"
       IN DepthFold(Tail(data),
                    IF hit = "none" THEN buckets ELSE [buckets EXCEPT ![hit] = @ + 1])

getDepthBuckets(data) == DepthFold(data, [l \in DepthLabels |-> 0])

\* ------------------------------------------------------------------------
\* The data file: arrays of parsed events (d3.csv callback, lines 24-46)
\* ------------------------------------------------------------------------
Ev(id, time, mag, depth, lat, lon) ==
  [id |-> id, time |-> time, mag |-> mag, depth |-> depth,
   latitude |-> lat, longitude |-> lon]

\* three months of 2015; events on a month's first midnight and on the noon
\* of a month's last day, a magnitude below 3
DataMixed ==
  << Ev(1, At(0, 5, 0), 5 * MagScale + 2, 5, 0, 0),
     Ev(2, At(0, 31, 1), 3 * MagScale + 5, 350, 1, 1),
     Ev(3, At(1, 1, 0), 5 * MagScale + 5, 350, 0, 1),
     Ev(4, At(1, 10, 0), 3 * MagScale - 1, 20, 1, 0),
     Ev(5, At(2, 3, 1), 5 * MagScale, 5, 0, 0),
     Ev(6, At(2, 31, 1), 8 * MagScale, 300, 1, 1) >>

\* 3 events in January 2020 and 5 in March 2020
DataScenario ==
  << Ev(1, At(60, 2, 0), 4 * MagScale, 12, 0, 0),
     Ev(2, At(60, 15, 1), 5 * MagScale + 1, 40, 1, 0),
     Ev(3, At(60, 31, 0), 6 * MagScale, 80, 1, 1),
     Ev(4, At(62, 1, 1), 3 * MagScale, 5, 0, 0),
     Ev(5, At(62, 9, 0), 5 * MagScale + 9, 310, 0, 1),
     Ev(6, At(62, 9, 1), 5 * MagScale, 8, 1, 1),
     Ev(7, At(62, 20, 0), 7 * MagScale, 100, 0, 0),
     Ev(8, At(62, 31, 1), 4 * MagScale + 4, 10, 1, 0) >>

\* a single month
DataOneMonth ==
  << Ev(1, At(3, 7, 1), 5 * MagScale + 3, 320, 0, 0),
     Ev(2, At(3, 30, 1), 3 * MagScale, 2, 1, 1) >>

DataSets == {DataMixed, DataScenario, DataOneMonth}

\* ------------------------------------------------------------------------
\* Array helpers
\* ------------------------------------------------------------------------
Elems(arr) == {arr[i] : i \in DOMAIN arr}

\* d3.min / d3.max of the times; undefined on an empty array, and
\* new Date(undefined) is the Invalid Date
MinTime(arr) == IF arr = <<>> THEN InvalidDate
                ELSE CHOOSE t \in {d.time : d \in Elems(arr)} :
                       \A d \in Elems(arr) : t <= d.time
MaxTime(arr) == IF arr = <<>> THEN InvalidDate
                ELSE CHOOSE t \in {d.time : d \in Elems(arr)} :
                       \A d \in Elems(arr) : t >= d.time

\* arr.filter((d) => d.time >= startDate && d.time <= endDate)
InWindow(arr, startDate, endDate) ==
  LET Test(d) == DateGE(d.time, startDate) /\ DateLE(d.time, endDate)
  IN SelectSeq(arr, Test)

\* the ascending sequence of the elements of a finite set of integers
RECURSIVE Ascending(_)
Ascending(S) ==
  IF S = {} THEN <<>>
  ELSE LET m == CHOOSE x \in S : \A y \in S : x <= y
       IN <<m>> \o Ascending(S \ {m})

MonthsOfContiguous(arr) ==
  LET months == {MonthOf(d.time) : d \in Elems(arr)}
  IN Ascending({m \in 0..MaxMonth :
                  \E a \in months : \E b \in months : a <= m /\ m <= b})

\* uniqueMonthsSet, uniqueMonthsSorted (lines 52-69): the month a key
\* "YYYY-MM" names is rebuilt as new Date(+year, +month)
MonthsOf(arr) == Ascending({MonthOf(d.time) : d \in Elems(arr)})

filterDataByMonth(arr, M) ==
  LET Test(d) == MonthOf(d.time) = M
  IN SelectSeq(arr, Test)

\* ------------------------------------------------------------------------
\* State
\* ------------------------------------------------------------------------
VARIABLES
  fullData,                \* the parsed data file
  monthsArray,             \* the distinct months, ascending
  isRangeMode,
  isAnimating,
  intervalId,              \* 0 is null
  timers,                  \* the interval timers that are armed
  timerDetached,           \* the slider the timer callback holds is no longer on screen
  timerValue,              \* value of that slider once it is detached
  timerDelay,              \* delay in ms the armed interval was created with, 0 when none
  speedControl,            \* value of the #speed-control select
  sliderValue,             \* value of the #monthSlider on screen, NoSlider in range mode
  sliderHandler,           \* "load": listener of lines 95-127, "collapse": of lines 284-295,
                           \* "none": no "input" listener
  collapseIndex,           \* the index the "collapse" listener closes over
  startIndex, endIndex,    \* closure of the latest expandToCustomRangeSlider call
  activeThumb,             \* "none", "start" or "end"
  listeners,               \* the thumb and document listeners of that call are registered
  selectedMagnitudes,
  selectedDepths,
  currentFilteredDataset,
  currentTimeSeriesData,   \* the series the timeline draws
  currentTSStartDate, currentTSEndDate,
  currentTimeFormat,
  chartData,               \* the array the two bar charts were last drawn from
  magChart, depthChart,    \* the bucket objects they show
  mapData,                 \* leafletMap.data: the circles on the map
  currentViewData,         \* vis.currentViewData
  brushRect,               \* vis.brushRect, NoRect is null
  isBrushMode,
  brushStart               \* startLatLng while onMouseMove / onMouseUp are registered

sliderVars == <<sliderValue, sliderHandler, collapseIndex>>
rangeVars == <<startIndex, endIndex, activeThumb, listeners>>
timerVars == <<isAnimating, intervalId, timers, timerDetached, timerValue, timerDelay>>
selectedVars == <<selectedMagnitudes, selectedDepths>>
timelineVars == <<currentFilteredDataset, currentTimeSeriesData,
                  currentTSStartDate, currentTSEndDate, currentTimeFormat>>
chartVars == <<chartData, magChart, depthChart>>
viewVars == <<timelineVars, chartVars, mapData>>
brushVars == <<currentViewData, brushRect, isBrushMode, brushStart>>

vars == <<fullData, monthsArray, isRangeMode, sliderVars, rangeVars, timerVars,
          speedControl, selectedVars, viewVars, brushVars>>

\* <option value="500">1x</option>, selected when the page opens
\* (index.html lines 51-55)
DefaultSpeed == 500
SpeedOptions == {500, 250, 1000}

\* line 829: the delay setInterval is called with
AnimationDelay == 500

NoSlider == 0 - 1
NoRect == [south |-> 1, north |-> 0, west |-> 1, east |-> 0]
NoPoint == <<0 - 1, 0 - 1>>

Min(a, b) == IF a <= b THEN a ELSE b
Max(a, b) == IF a >= b THEN a ELSE b

lastIndex == Len(monthsArray) - 1

\* monthsArray[index] (JavaScript counts from 0)
MonthAt(index) == monthsArray[index + 1]

\* ------------------------------------------------------------------------
\* The timeline: updateEarthquakeChart (lines 514-576)
\* ------------------------------------------------------------------------
\* the thresholds compared with < : 31 and 730 days go to the coarser grouping
TimeFormatForStrict(startDate, endDate) ==
  IF startDate = InvalidDate \/ endDate = InvalidDate THEN "%Y"
  ELSE IF endDate - startDate < 31 * TicksPerDay THEN "%Y-%m-%d"
  ELSE IF endDate - startDate < 730 * TicksPerDay THEN "%Y-%m"
  ELSE "%Y"

\* daysDiff <= 31, daysDiff <= 730; with an Invalid Date daysDiff is NaN and
\* both comparisons are false
TimeFormatFor(startDate, endDate) ==
  IF startDate = InvalidDate \/ endDate = InvalidDate THEN "%Y"
  ELSE IF endDate - startDate <= 31 * TicksPerDay THEN "%Y-%m-%d"
  ELSE IF endDate - startDate <= 730 * TicksPerDay THEN "%Y-%m"
  ELSE "%Y"

\* d3.timeFormat(timeFormat)(d.time), then the Date parsed back from the key
KeyOf(t, timeFormat) ==
  IF timeFormat = "%Y-%m-%d" THEN DayOf(t)
  ELSE IF timeFormat = "%Y-%m" THEN MonthOf(t)
  ELSE YearOfMonth(MonthOf(t))

KeyDate(key, timeFormat) ==
  IF timeFormat = "%Y-%m-%d" THEN key * TicksPerDay
  ELSE IF timeFormat = "%Y-%m" THEN MonthStart(key)
  ELSE MonthStart((key - 2015) * 12)

TimeSeriesPerEvent(data, timeFormat) ==
  LET dates == Ascending({KeyDate(KeyOf(d.time, timeFormat), timeFormat) : d \in Elems(data)})
  IN [i \in DOMAIN data |->
        [date |-> dates[IF i <= Len(dates) THEN i ELSE Len(dates)], count |-> 1]]

\* d3.rollup by key, one {date, count} per key, sorted by date
TimeSeries(data, timeFormat) ==
  LET dates == Ascending({KeyDate(KeyOf(d.time, timeFormat), timeFormat) : d \in Elems(data)})
      CountAt(date) ==
        LET Test(d) == KeyDate(KeyOf(d.time, timeFormat), timeFormat) = date
        IN Len(SelectSeq(data, Test))
  IN [i \in DOMAIN dates |-> [date |-> dates[i], count |-> CountAt(dates[i])]]

updateEarthquakeChartAccumulating(startDate, endDate) ==
  LET filteredData == InWindow(fullData, startDate, endDate)
      timeFormat == TimeFormatFor(startDate, endDate)
  IN /\ currentFilteredDataset' = filteredData
     /\ currentTimeFormat' = timeFormat
     /\ currentTimeSeriesData' =
          IF Len(currentTimeSeriesData) < 4
          THEN currentTimeSeriesData \o TimeSeries(filteredData, timeFormat)
          ELSE TimeSeries(filteredData, timeFormat)
     /\ currentTSStartDate' = startDate
     /\ currentTSEndDate' = endDate

updateEarthquakeChart(startDate, endDate) ==
  LET filteredData == InWindow(fullData, startDate, endDate)
      timeFormat == TimeFormatFor(startDate, endDate)
  IN /\ currentFilteredDataset' = filteredData
     /\ currentTimeFormat' = timeFormat
     /\ currentTimeSeriesData' = TimeSeries(filteredData, timeFormat)
     /\ currentTSStartDate' = startDate
     /\ currentTSEndDate' = endDate

\* updateAllCharts (lines 738-744)
updateAllCharts(data) ==
  /\ chartData' = data
  /\ magChart' = getMagnitudeBuckets(data)
  /\ depthChart' = getDepthBuckets(data)

\* LeafletMap.setData (layout.js lines 312-315)
setData(newData) == mapData' = newData

\* updateVisuals (lines 790-812), called where #monthLabel is in the page
updateVisuals(index) ==
  LET startDate == MonthStart(MonthAt(index))
      endDate == MonthLastDayMidnight(MonthAt(index))
      filteredData == InWindow(fullData, startDate, endDate)
  IN /\ setData(filteredData)
     /\ updateEarthquakeChart(startDate, endDate)
     /\ updateAllCharts(filteredData)

\* ------------------------------------------------------------------------
\* After the d3.csv callback (lines 24-136) and the LeafletMap constructor
\* (layout.js lines 29-35, 40-45, 230-232)
\* ------------------------------------------------------------------------
Init ==
  /\ fullData \in DataSets
  /\ monthsArray = MonthsOf(fullData)
  /\ isRangeMode = FALSE
  /\ isAnimating = FALSE
  /\ intervalId = 0
  /\ timers = {}
  /\ timerDetached = FALSE
  /\ timerValue = 0
  /\ timerDelay = 0
  /\ speedControl = DefaultSpeed
  /\ sliderValue = Len(monthsArray) - 1
  /\ sliderHandler = "load"
  /\ collapseIndex = 0
  /\ startIndex = 0
  /\ endIndex = 0
  /\ activeThumb = "none"
  /\ listeners = FALSE
  /\ selectedMagnitudes = {}
  /\ selectedDepths = {}
  \* line 49: updateEarthquakeChart(new Date("2015-01-01"), new Date("2015-01-31"))
  /\ currentFilteredDataset = InWindow(fullData, At(0, 1, 0), At(0, 31, 0))
  /\ currentTimeFormat = TimeFormatFor(At(0, 1, 0), At(0, 31, 0))
  /\ currentTimeSeriesData = TimeSeries(currentFilteredDataset, currentTimeFormat)
  /\ currentTSStartDate = At(0, 1, 0)
  /\ currentTSEndDate = At(0, 31, 0)
  \* lines 85-92, 135: the latest month on the map and in the bar charts
  /\ mapData = filterDataByMonth(fullData, monthsArray[Len(monthsArray)])
  /\ chartData = mapData
  /\ magChart = getMagnitudeBuckets(mapData)
  /\ depthChart = getDepthBuckets(mapData)
  /\ currentViewData = mapData
  /\ brushRect = NoRect
  /\ isBrushMode = FALSE
  /\ brushStart = NoPoint

\* ------------------------------------------------------------------------
\* The month slider
\* ------------------------------------------------------------------------
\* "input" listener registered at load (lines 95-127)
LoadSliderInput(index) ==
  LET startDate == MonthStart(MonthAt(index))
      endDate == MonthLastDayMidnight(MonthAt(index))
      filteredData == InWindow(fullData, startDate, endDate)
  IN /\ setData(filteredData)
     /\ updateEarthquakeChart(startDate, endDate)
     /\ updateAllCharts(filteredData)

\* "input" listener registered by collapseToSingleSlider (lines 284-295):
\* it draws month idx and then calls updateVisuals(index) with the index
\* collapseToSingleSlider was called with, which redraws every view
CollapseSliderInput(idx) == updateVisuals(collapseIndex)

\* the user moves the slider on screen to another value
SliderInput(j) ==
  /\ ~isRangeMode
  /\ j \in 0..lastIndex
  /\ j # sliderValue
  /\ sliderValue' = j
  /\ IF sliderHandler = "load" THEN LoadSliderInput(j) ELSE CollapseSliderInput(j)
  /\ UNCHANGED <<fullData, monthsArray, speedControl, isRangeMode, sliderHandler, collapseIndex,
                 rangeVars, timerVars, selectedVars, brushVars>>

\* ------------------------------------------------------------------------
\* Range mode: expandToCustomRangeSlider (lines 157-253)
\* ------------------------------------------------------------------------
\* line 205 reads `filteredData`; no declaration of that name is in scope in
\* update() (the ones of lines 116, 520 and 804 are local to other functions),
\* so the read raises a ReferenceError
filteredDataInScope == FALSE

\* the slider leaves the page: a running timer keeps the detached element
DetachTimerSlider ==
  IF timers # {} /\ ~timerDetached
  THEN timerDetached' = TRUE /\ timerValue' = sliderValue
  ELSE UNCHANGED <<timerDetached, timerValue>>

\* collapseToSingleSlider(index) (lines 256-301)
collapseToSingleSlider(index) ==
  LET selectedMonth == MonthAt(index)
      filtered == filterDataByMonth(fullData, selectedMonth)
  IN /\ isRangeMode' = FALSE
     /\ sliderValue' = index
     /\ sliderHandler' = "collapse"
     /\ collapseIndex' = index
     /\ setData(filtered)
     /\ updateEarthquakeChart(MonthStart(selectedMonth), MonthStart(selectedMonth))
     /\ updateAllCharts(filtered)

\* update() (lines 193-217) with the closure's startIndex s and endIndex e.
\* mode and slider are isRangeMode and the slider value as the caller left
\* them: update() itself assigns them only through collapseToSingleSlider
update(s, e, mode, slider) ==
  LET startDate == MonthStart(MonthAt(s))
      endDate == MonthStart(MonthAt(e))
      filtered == InWindow(fullData, startDate, endDate)
  IN IF ~filteredDataInScope
     THEN \* raised at line 205: no view is redrawn, no collapse
          /\ isRangeMode' = mode
          /\ sliderValue' = slider
          /\ UNCHANGED <<sliderHandler, collapseIndex, viewVars>>
     ELSE IF s = e
     THEN collapseToSingleSlider(s)
     ELSE /\ isRangeMode' = mode
          /\ sliderValue' = slider
          /\ setData(filtered)
          /\ updateEarthquakeChart(startDate, endDate)
          /\ updateAllCharts(filtered)
          /\ UNCHANGED <<sliderHandler, collapseIndex>>

SeedStart(currentIndex) == Max(0, currentIndex - 1)
SeedEnd(currentIndex) == Min(lastIndex, currentIndex + 1)

expandToCustomRangeSlider ==
  /\ startIndex' = SeedStart(sliderValue)
  /\ endIndex' = SeedEnd(sliderValue)
  \* line 158: isRangeMode = true; lines 166-177: the slider is replaced
  /\ update(startIndex', endIndex', TRUE, NoSlider)
  \* lines 225-252 run only when update() returned
  /\ activeThumb' = "none"
  /\ listeners' = filteredDataInScope
  /\ DetachTimerSlider
  /\ UNCHANGED <<fullData, monthsArray, speedControl, isAnimating, intervalId, timers,
                 timerDelay, selectedVars, brushVars>>

\* "click" listener of the slider of the load (lines 130-132)
SliderClick ==
  /\ ~isRangeMode
  /\ sliderHandler = "load"
  /\ expandToCustomRangeSlider

\* "dblclick" listener of the slider of collapseToSingleSlider (lines 298-300)
SliderDblClick ==
  /\ ~isRangeMode
  /\ sliderHandler = "collapse"
  /\ expandToCustomRangeSlider

\* ------------------------------------------------------------------------
\* The thumbs of the range slider (lines 225-252)
\* ------------------------------------------------------------------------
\* x is e.clientX - rect.left, in pixels; the track is TrackWidth pixels wide.
\* Math.round(pct * last) with pct = max(0, min(1, x / width))
PointerIndex(x) ==
  LET cx == Max(0, Min(TrackWidth, x))
  IN (2 * cx * lastIndex + TrackWidth) \div (2 * TrackWidth)

\* the start thumb following the pointer without the clamp of line 244
DragStartIndexUnclamped(idx, e) == idx
\* line 244 and line 247
DragStartIndex(idx, e) == Min(idx, e)
DragEndIndex(idx, s) == Max(idx, s)

\* "mousedown" listeners of the two thumbs (lines 228-229)
ThumbMouseDown(which) ==
  /\ listeners
  /\ isRangeMode
  /\ which \in {"start", "end"}
  /\ activeThumb # which
  /\ activeThumb' = which
  /\ UNCHANGED <<fullData, monthsArray, speedControl, isRangeMode, sliderVars, startIndex, endIndex,
                 listeners, timerVars, selectedVars, viewVars, brushVars>>

\* "mouseup" listener of the document (line 232)
DocMouseUp ==
  /\ listeners
  /\ activeThumb # "none"
  /\ activeThumb' = "none"
  /\ UNCHANGED <<fullData, monthsArray, speedControl, isRangeMode, sliderVars, startIndex, endIndex,
                 listeners, timerVars, selectedVars, viewVars, brushVars>>

\* "mousemove" listener of the document (lines 235-252)
DocMouseMove(x) ==
  /\ listeners
  /\ activeThumb # "none"
  /\ LET idx == PointerIndex(x) IN
       IF activeThumb = "start"
       THEN startIndex' = DragStartIndex(idx, endIndex) /\ endIndex' = endIndex
       ELSE endIndex' = DragEndIndex(idx, startIndex) /\ startIndex' = startIndex
  /\ update(startIndex', endIndex', isRangeMode, sliderValue)
  /\ IF isRangeMode' # isRangeMode THEN DetachTimerSlider
     ELSE UNCHANGED <<timerDetached, timerValue>>
  /\ UNCHANGED <<fullData, monthsArray, speedControl, activeThumb, listeners, isAnimating,
                 intervalId, timers, timerDelay, selectedVars, brushVars>>

\* ------------------------------------------------------------------------
\* Playback (lines 814-842)
\* ------------------------------------------------------------------------
\* a stop condition that fires one index early
PlaybackDoneEarly(value) == value >= lastIndex - 1
\* line 823: +slider.value >= +slider.max
PlaybackDone(value) == value >= lastIndex

NewTimerId == CHOOSE i \in 1..(Cardinality(timers) + 1) : i \notin timers

\* a stop that resets the flag and the id but leaves the interval armed
stopAnimationWithoutClear ==
  /\ isAnimating' = FALSE
  /\ timers' = timers
  /\ intervalId' = 0
  /\ UNCHANGED <<timerDetached, timerValue, timerDelay>>

\* stopAnimation (lines 832-837)
stopAnimation ==
  /\ isAnimating' = FALSE
  /\ timers' = timers \ {intervalId}
  /\ intervalId' = 0
  /\ timerDetached' = FALSE
  /\ timerValue' = 0
  /\ timerDelay' = 0

\* playback started on the selector as it stands, without line 815
startAnimationWithoutCollapse ==
  /\ UNCHANGED <<isRangeMode, sliderHandler, collapseIndex>>
  /\ sliderValue' = 0
  /\ updateVisuals(0)
  /\ isAnimating' = TRUE
  /\ intervalId' = NewTimerId
  /\ timers' = timers \cup {NewTimerId}
  /\ timerDetached' = FALSE
  /\ timerValue' = 0
  /\ timerDelay' = AnimationDelay

\* startAnimation (lines 814-830): collapseToSingleSlider(0) puts a new slider
\* with the "collapse" listener on the page, then updateVisuals(0) redraws
\* every view and the timer is armed on that slider
startAnimation ==
  /\ isRangeMode' = FALSE
  /\ sliderValue' = 0
  /\ sliderHandler' = "collapse"
  /\ collapseIndex' = 0
  /\ updateVisuals(0)
  /\ isAnimating' = TRUE
  /\ intervalId' = NewTimerId
  /\ timers' = timers \cup {NewTimerId}
  /\ timerDetached' = FALSE
  /\ timerValue' = 0
  /\ timerDelay' = AnimationDelay

\* the range closure is garbage once its slider is gone, unless its document
\* listeners still hold it
DropRangeClosure ==
  IF listeners THEN UNCHANGED rangeVars
  ELSE startIndex' = 0 /\ endIndex' = 0 /\ UNCHANGED <<activeThumb, listeners>>

\* "click" listener of #animation-btn (lines 840-842)
AnimateClickStart ==
  /\ ~isAnimating
  /\ startAnimation
  /\ DropRangeClosure
  /\ UNCHANGED <<fullData, monthsArray, speedControl, selectedVars, brushVars>>

\* a Stop click that resets the flag only
AnimateClickStopFlagOnly ==
  /\ isAnimating
  /\ isAnimating' = FALSE
  /\ UNCHANGED <<fullData, monthsArray, speedControl, isRangeMode, sliderVars, rangeVars,
                 intervalId, timers, timerDetached, timerValue, timerDelay,
                 selectedVars, viewVars, brushVars>>

AnimateClickStop ==
  /\ isAnimating
  /\ stopAnimation
  /\ UNCHANGED <<fullData, monthsArray, speedControl, isRangeMode, sliderVars, rangeVars,
                 selectedVars, viewVars, brushVars>>

\* the setInterval callback (lines 822-829); `slider` is the element
\* startAnimation found, on the page or detached
Tick ==
  /\ timers # {}
  /\ LET value == IF timerDetached THEN timerValue ELSE sliderValue IN
       IF PlaybackDone(value)
       THEN /\ stopAnimation
            /\ UNCHANGED <<sliderValue, viewVars>>
       ELSE /\ IF timerDetached
               THEN timerValue' = value + 1 /\ sliderValue' = sliderValue
               ELSE sliderValue' = value + 1 /\ timerValue' = timerValue
            \* updateVisuals reads the global monthLabel (line 803), which the
            \* browser resolves to #monthLabel: absent in range mode, the read
            \* raises a ReferenceError before any view is redrawn
            /\ IF isRangeMode THEN UNCHANGED viewVars ELSE updateVisuals(value + 1)
            /\ UNCHANGED <<isAnimating, intervalId, timers, timerDetached, timerDelay>>
  /\ UNCHANGED <<fullData, monthsArray, speedControl, isRangeMode, sliderHandler, collapseIndex,
                 rangeVars, selectedVars, brushVars>>

\* ------------------------------------------------------------------------
\* Bucket selection: the "click" listener of a bar (lines 459-475) and
\* applyFilters (lines 844-865)
\* ------------------------------------------------------------------------
\* the bars the user clicks, in the order the bounds admit them
MagClickOrder == <<"5.0-5.9", "3.0-3.9", "8.0+", "4.0-4.9", "6.0-6.9", "7.0-7.9">>
DepthClickOrder == <<"300km+", "0-10km", "10-30km", "30-70km", "70-300km">>

ClickableMagnitudes == {MagClickOrder[i] : i \in 1..Min(MaxMagLabels, Len(MagClickOrder))}
ClickableDepths == {DepthClickOrder[i] : i \in 1..Min(MaxDepthLabels, Len(DepthClickOrder))}

\* the array applyFilters starts from (line 845)
FilterBase == currentFilteredDataset

\* lines 847-857
BucketFilter(base, magnitudes, depths) ==
  LET MagTest(d) == getMagnitudeLabel(d.mag) \in magnitudes
      DepthTest(d) == getDepthLabel(d.depth) \in depths
      byMag == IF magnitudes # {} THEN SelectSeq(base, MagTest) ELSE base
  IN IF depths # {} THEN SelectSeq(byMag, DepthTest) ELSE byMag

\* lines 861-863: d3.min and d3.max are undefined on an empty array, and then
\* the window is 1995-01-01 .. now
FilterWindowStart(filtered) == IF filtered = <<>> THEN Date1995 ELSE MinTime(filtered)
FilterWindowEnd(filtered) == IF filtered = <<>> THEN DateNow ELSE MaxTime(filtered)

\* applyFilters keeping the filtered array itself as the stored base
applyFiltersStoringFiltered(magnitudes, depths) ==
  LET filtered == BucketFilter(FilterBase, magnitudes, depths)
      startDate == FilterWindowStart(filtered)
      endDate == FilterWindowEnd(filtered)
  IN /\ setData(filtered)
     /\ currentFilteredDataset' = filtered
     /\ currentTimeFormat' = TimeFormatFor(startDate, endDate)
     /\ currentTimeSeriesData' = TimeSeries(filtered, currentTimeFormat')
     /\ currentTSStartDate' = startDate
     /\ currentTSEndDate' = endDate
     /\ updateAllCharts(filtered)

applyFilters(magnitudes, depths) ==
  LET filtered == BucketFilter(FilterBase, magnitudes, depths)
  IN /\ setData(filtered)
     /\ updateEarthquakeChart(FilterWindowStart(filtered), FilterWindowEnd(filtered))
     /\ updateAllCharts(filtered)

\* a label removed from the set and every other one with it
ToggleLabelSingleSelect(set, label) == IF label \in set THEN {} ELSE {label}

\* has(label) ? delete(label) : add(label)
ToggleLabel(set, label) == IF label \in set THEN set \ {label} ELSE set \cup {label}

\* "click" listener of a bar of the magnitude chart (xLabel === "Magnitude")
BarClickMagnitude(label) ==
  /\ label \in MagLabels
  /\ selectedMagnitudes' = ToggleLabel(selectedMagnitudes, label)
  /\ applyFilters(selectedMagnitudes', selectedDepths)
  /\ UNCHANGED <<fullData, monthsArray, speedControl, isRangeMode, sliderVars, rangeVars,
                 timerVars, selectedDepths, brushVars>>

\* "click" listener of a bar of the depth chart (xLabel === "Depth (km)")
BarClickDepth(label) ==
  /\ label \in DepthLabels
  /\ selectedDepths' = ToggleLabel(selectedDepths, label)
  /\ applyFilters(selectedMagnitudes, selectedDepths')
  /\ UNCHANGED <<fullData, monthsArray, speedControl, isRangeMode, sliderVars, rangeVars,
                 timerVars, selectedMagnitudes, brushVars>>

\* the clicks on the bars the bounds admit
ToggleMagnitude(label) == label \in ClickableMagnitudes /\ BarClickMagnitude(label)

ToggleDepth(label) == label \in ClickableDepths /\ BarClickDepth(label)

\* ------------------------------------------------------------------------
\* The map brush (layout.js lines 230-307)
\* ------------------------------------------------------------------------
\* where the pointer is pressed, moved to and released
PointerPoints == {<<i, i>> : i \in 0..MaxCoord}

\* L.latLngBounds(a, b)
LatLngBounds(a, b) ==
  [south |-> Min(a[1], b[1]), north |-> Max(a[1], b[1]),
   west |-> Min(a[2], b[2]), east |-> Max(a[2], b[2])]

\* bounds.contains(L.latLng(d.latitude, d.longitude))
Contains(bounds, d) ==
  /\ d.latitude >= bounds.south /\ d.latitude <= bounds.north
  /\ d.longitude >= bounds.west /\ d.longitude <= bounds.east

InBounds(arr, bounds) ==
  LET Test(d) == Contains(bounds, d)
  IN SelectSeq(arr, Test)

\* "click" listener of #toggle-mode-btn (lines 237-247)
ToggleBrushMode ==
  /\ isBrushMode' = ~isBrushMode
  /\ currentViewData' = IF isBrushMode' THEN mapData ELSE currentViewData
  /\ UNCHANGED <<fullData, monthsArray, speedControl, isRangeMode, sliderVars, rangeVars, timerVars,
                 selectedVars, viewVars, brushRect, brushStart>>

\* "mousedown" listener of the map (lines 265-307), no drag being tracked
MapMouseDown(p) ==
  /\ isBrushMode
  /\ brushStart = NoPoint
  /\ p \in PointerPoints
  /\ brushRect' = NoRect
  /\ brushStart' = p
  /\ UNCHANGED <<fullData, monthsArray, speedControl, isRangeMode, sliderVars, rangeVars, timerVars,
                 selectedVars, viewVars, currentViewData, isBrushMode>>

\* onMouseMove (lines 275-284)
MapMouseMove(p) ==
  /\ brushStart # NoPoint
  /\ p \in PointerPoints
  /\ brushRect' = LatLngBounds(brushStart, p)
  /\ UNCHANGED <<fullData, monthsArray, speedControl, isRangeMode, sliderVars, rangeVars, timerVars,
                 selectedVars, viewVars, currentViewData, isBrushMode, brushStart>>

\* the array a committed brush filters (line 293)
BrushBase == currentViewData

\* onMouseUp (lines 286-303)
MapMouseUp ==
  /\ brushStart # NoPoint
  /\ brushStart' = NoPoint
  /\ IF brushRect = NoRect
     THEN UNCHANGED viewVars
     ELSE LET filtered == InBounds(BrushBase, brushRect)
          IN /\ setData(filtered)
             /\ updateAllCharts(filtered)
             /\ updateEarthquakeChart(MinTime(filtered), MaxTime(filtered))
  /\ UNCHANGED <<fullData, monthsArray, speedControl, isRangeMode, sliderVars, rangeVars, timerVars,
                 selectedVars, currentViewData, brushRect, isBrushMode>>

\* "click" listener of #reset-map-btn (lines 249-262)
ResetMap ==
  /\ brushRect' = NoRect
  /\ setData(currentViewData)
  /\ updateAllCharts(currentViewData)
  /\ updateEarthquakeChart(MinTime(currentViewData), MaxTime(currentViewData))
  /\ UNCHANGED <<fullData, monthsArray, speedControl, isRangeMode, sliderVars, rangeVars, timerVars,
                 selectedVars, currentViewData, isBrushMode, brushStart>>

\* ------------------------------------------------------------------------
\* The page
\* ------------------------------------------------------------------------
Next ==
  \/ \E j \in 0..lastIndex : SliderInput(j)
  \/ SliderClick
  \/ SliderDblClick
  \/ AnimateClickStart
  \/ AnimateClickStop
  \/ Tick
  \/ \E label \in ClickableMagnitudes : ToggleMagnitude(label)
  \/ \E label \in ClickableDepths : ToggleDepth(label)
  \/ ToggleBrushMode
  \/ \E p \in PointerPoints : MapMouseDown(p)
  \/ \E p \in PointerPoints : MapMouseMove(p)
  \/ MapMouseUp
  \/ ResetMap

Spec == Init /\ [][Next]_vars

\* ------------------------------------------------------------------------
\* One range session: the state expandToCustomRangeSlider leaves when the
\* month slider is clicked right after the load, with the listeners of lines
\* 228-252 registered, and the gestures that do not close the session.
\* (In part_000 update() raises at line 205 before line 228 is reached, see
\* filteredDataInScope; the listeners are the ones the same function
\* registers in the draft part_001, lines 211-235.)
\* ------------------------------------------------------------------------
InitDrag ==
  /\ fullData \in DataSets
  /\ monthsArray = MonthsOf(fullData)
  /\ isRangeMode = TRUE
  /\ isAnimating = FALSE
  /\ intervalId = 0
  /\ timers = {}
  /\ timerDetached = FALSE
  /\ timerValue = 0
  /\ timerDelay = 0
  /\ speedControl = DefaultSpeed
  /\ sliderValue = NoSlider
  /\ sliderHandler = "load"
  /\ collapseIndex = 0
  /\ \E i \in 0..(Len(monthsArray) - 1) :
       /\ startIndex = Max(0, i - 1)
       /\ endIndex = Min(Len(monthsArray) - 1, i + 1)
  /\ activeThumb = "none"
  /\ listeners = TRUE
  /\ selectedMagnitudes = {}
  /\ selectedDepths = {}
  /\ currentFilteredDataset = InWindow(fullData, At(0, 1, 0), At(0, 31, 0))
  /\ currentTimeFormat = TimeFormatFor(At(0, 1, 0), At(0, 31, 0))
  /\ currentTimeSeriesData = TimeSeries(currentFilteredDataset, currentTimeFormat)
  /\ currentTSStartDate = At(0, 1, 0)
  /\ currentTSEndDate = At(0, 31, 0)
  /\ mapData = filterDataByMonth(fullData, monthsArray[Len(monthsArray)])
  /\ chartData = mapData
  /\ magChart = getMagnitudeBuckets(mapData)
  /\ depthChart = getDepthBuckets(mapData)
  /\ currentViewData = mapData
  /\ brushRect = NoRect
  /\ isBrushMode = FALSE
  /\ brushStart = NoPoint

NextDrag ==
  \/ \E which \in {"start", "end"} : ThumbMouseDown(which)
  \/ DocMouseUp
  \/ \E x \in (0 - 1)..(TrackWidth + 1) : DocMouseMove(x)
  \/ \E label \in ClickableMagnitudes : ToggleMagnitude(label)
  \/ \E label \in ClickableDepths : ToggleDepth(label)
  \/ ToggleBrushMode
  \/ \E p \in PointerPoints : MapMouseDown(p)
  \/ \E p \in PointerPoints : MapMouseMove(p)
  \/ MapMouseUp
  \/ ResetMap

SpecDrag == InitDrag /\ [][NextDrag]_vars

\* ------------------------------------------------------------------------
\* What the selector shows
\* ------------------------------------------------------------------------
\* first and last month of the window the selector stands on
SelectorFirstMonth == IF isRangeMode THEN MonthAt(startIndex) ELSE MonthAt(sliderValue)
SelectorLastMonth == IF isRangeMode THEN MonthAt(endIndex) ELSE MonthAt(sliderValue)

InSelectorWindow(d) ==
  /\ MonthOf(d.time) >= SelectorFirstMonth
  /\ MonthOf(d.time) <= SelectorLastMonth

\* a committed brush box is on the map
BrushActive == brushRect # NoRect /\ brushStart = NoPoint

\* the composed predicate of the specification
PassesAllPredicates(d) ==
  /\ InSelectorWindow(d)
  /\ (selectedMagnitudes = {} \/ getMagnitudeLabel(d.mag) \in selectedMagnitudes)
  /\ (selectedDepths = {} \/ getDepthLabel(d.depth) \in selectedDepths)
  /\ (~BrushActive \/ Contains(brushRect, d))

\* the four views are computed from the set on the map
ViewsAgree ==
  /\ chartData = mapData
  /\ magChart = getMagnitudeBuckets(mapData)
  /\ depthChart = getDepthBuckets(mapData)
  /\ currentTimeSeriesData = TimeSeries(mapData, currentTimeFormat)

\* ------------------------------------------------------------------------
\* Claims
\* ------------------------------------------------------------------------

\* C1: the displayed set is the composed predicate.  Stated here is its
\* "only if" half: in every state each event on the map lies in the
\* selector's time window, carries a selected magnitude label (or none is
\* selected), carries a selected depth label (or none is selected) and lies
\* in the committed brush box (or none is committed).
C1_FilteredSetIsComposedPredicate ==
  \A d \in Elems(mapData) : PassesAllPredicates(d)

\* C2: every step that redraws a view leaves the map, the two bar charts and
\* the timeline computed from one and the same set of events.
C2_ViewsShareOneSet ==
  [][viewVars' # viewVars => ViewsAgree']_vars


\* C3: in a range session, after any thumb drags with any pointer position,
\* 0 <= startIndex <= endIndex <= lastIndex.
C3_ThumbsOrdered ==
  /\ 0 <= startIndex
  /\ startIndex <= endIndex
  /\ endIndex <= lastIndex

\* C3 witness: the start thumb was dragged right until it met the end thumb
\* on the last month
C3_Witness ==
  /\ isRangeMode
  /\ lastIndex >= 2
  /\ activeThumb = "start"
  /\ startIndex = lastIndex
  /\ endIndex = lastIndex

ShowsOnlySliderMonth ==
  \A d \in Elems(mapData) \cup Elems(chartData) \cup Elems(currentFilteredDataset) :
     MonthOf(d.time) = MonthAt(sliderValue)

\* C5: startAnimation shows index 0 and arms one timer; while playback is not
\* interrupted every tick below the last index shows the next index and keeps
\* playing, the tick on the last index stops playback (timer cleared,
\* isAnimating false) and changes neither the slider nor a view; no timer is
\* armed while idle.  So the indices 0, 1, .., N-1 are shown in this order,
\* each once, and playback ends once.
C5_PlaybackRunsToLastMonth ==
  /\ [](~isAnimating => timers = {})
  /\ [][/\ AnimateClickStart =>
             (/\ sliderValue' = 0
              /\ ShowsOnlySliderMonth'
              /\ isAnimating'
              /\ Cardinality(timers') = 1)
        /\ (Tick /\ isAnimating /\ ~timerDetached) =>
             IF sliderValue < lastIndex
             THEN /\ sliderValue' = sliderValue + 1
                  /\ ShowsOnlySliderMonth'
                  /\ mapData' # <<>>
                  /\ isAnimating'
                  /\ timers' = timers
             ELSE /\ ~isAnimating'
                  /\ timers' = {}
                  /\ intervalId' = 0
                  /\ UNCHANGED <<sliderValue, viewVars>>]_vars

\* C5 witness: playback ran to the last of at least three months and stopped
\* there by itself
C5_Witness ==
  /\ ~isAnimating
  /\ timers = {}
  /\ ~isRangeMode
  /\ lastIndex >= 2
  /\ sliderHandler = "collapse"
  /\ collapseIndex = 0
  /\ sliderValue = lastIndex
  /\ mapData # <<>>
  /\ ShowsOnlySliderMonth

NoBucketNoBrush == selectedMagnitudes = {} /\ selectedDepths = {} /\ ~BrushActive

\* the views show every event of the months the selector spans
SelectorWindowShown ==
  /\ mapData = SelectSeq(fullData, InSelectorWindow)
  /\ chartData = mapData
  /\ currentTimeSeriesData = TimeSeries(mapData, currentTimeFormat)

\* C6: entering Range(s,e) shows every event from the first day of month s to
\* the last day of month e; with 3 events in January 2020 and 5 in March 2020,
\* Range(0,1) shows 8 events and the monthly timeline (2020-01, 3), (2020-03, 5).
C6_RangeSpansWholeEndMonth ==
  [][((SliderClick \/ SliderDblClick) /\ NoBucketNoBrush) =>
       (/\ SelectorWindowShown'
        /\ (fullData = DataScenario /\ startIndex' = 0 /\ endIndex' = 1) =>
             (/\ Len(mapData') = 8
              /\ currentTimeSeriesData' = << [date |-> MonthStart(60), count |-> 3],
                                             [date |-> MonthStart(62), count |-> 5] >>))]_vars

\* C7: a month put on screen by the slider of the load or by a playback tick
\* is shown whole: every event of that calendar month, the ones of its last
\* day included, is on the map and in the timeline.
C7_SingleMonthIsWhole ==
  [][(/\ \/ ((\E j \in 0..lastIndex : SliderInput(j)) /\ sliderHandler = "load")
         \/ (Tick /\ isAnimating' /\ ~timerDetached /\ ~isRangeMode)
      /\ NoBucketNoBrush)
       => SelectorWindowShown']_vars

\* C8: a slider pick of index j in Single mode leaves the slider on j and
\* every view showing events of month j only.
C8_PickShowsPickedMonth ==
  [][(\E j \in 0..lastIndex : SliderInput(j)) => ShowsOnlySliderMonth']_vars

\* C9: a bucket toggle that leaves the filtered set empty reports every
\* magnitude and depth bucket with count zero and leaves the time window of
\* the timeline as it was.
C9_EmptySetKeepsWindow ==
  [][(/\ \/ \E label \in ClickableMagnitudes : ToggleMagnitude(label)
         \/ \E label \in ClickableDepths : ToggleDepth(label)
      /\ mapData' = <<>>)
       => (/\ magChart' = [l \in MagLabels |-> 0]
           /\ depthChart' = [l \in DepthLabels |-> 0]
           /\ currentTSStartDate' = currentTSStartDate
           /\ currentTSEndDate' = currentTSEndDate)]_vars

\* C10: a bucket toggle or a brush commit leaves the window and the
\* granularity of the timeline as the selector set them.
C10_TimelineWindowFromSelector ==
  [][(\/ \E label \in ClickableMagnitudes : ToggleMagnitude(label)
      \/ \E label \in ClickableDepths : ToggleDepth(label)
      \/ (MapMouseUp /\ brushRect # NoRect))
       => UNCHANGED <<currentTSStartDate, currentTSEndDate, currentTimeFormat>>]_vars

\* ------------------------------------------------------------------------
\* updateEarthquakeChart called with any pair of dates (lines 514-576)
\* ------------------------------------------------------------------------
\* the dates a window is applied with; from 2015-01-01, 2015-02-01 is 31 days
\* away, 2016-12-31 is 730 days away
WindowDates ==
  {At(0, 1, 0), At(0, 31, 0), At(1, 1, 0), At(1, 1, 1), At(2, 31, 1), At(3, 30, 1),
   At(23, 31, 0), At(24, 1, 0), At(60, 1, 0), At(62, 31, 0)}

\* a call of updateEarthquakeChart(startDate, endDate) on the loaded page
ApplyTimeRange(startDate, endDate) ==
  /\ startDate \in WindowDates
  /\ endDate \in WindowDates
  /\ updateEarthquakeChart(startDate, endDate)
  /\ UNCHANGED <<fullData, monthsArray, speedControl, isRangeMode, sliderVars, rangeVars, timerVars,
                 selectedVars, chartVars, mapData, brushVars>>

NextWindow == \E startDate, endDate \in WindowDates : ApplyTimeRange(startDate, endDate)

SpecWindow == Init /\ [][NextWindow]_vars

\* C11: applying a window whose start is later than its end leaves the
\* applied window, currentFilteredDataset and the timeline data unchanged.
C11_InvertedWindowRejected ==
  [][(\E startDate, endDate \in WindowDates :
         ApplyTimeRange(startDate, endDate) /\ startDate > endDate)
       => UNCHANGED timelineVars]_vars

\* the map shows no event outside the months startIndex..endIndex and every
\* event of the months before the end month
MapReflectsRange ==
  /\ \A d \in Elems(mapData) :
       MonthOf(d.time) >= MonthAt(startIndex) /\ MonthOf(d.time) <= MonthAt(endIndex)
  /\ \A d \in Elems(fullData) :
       (MonthOf(d.time) >= MonthAt(startIndex) /\ MonthOf(d.time) < MonthAt(endIndex))
         => d \in Elems(mapData)

\* C12: expanding from Single(i) with more than one month leaves the selector
\* in Range(max(0,i-1), min(lastIndex,i+1)) with the views redrawn for that
\* window and the thumb listeners registered; with a single month the seeded
\* Range(0,0) collapses at once to Single(0).
C12_ExpandSeedsRange ==
  [][((SliderClick \/ SliderDblClick) /\ NoBucketNoBrush) =>
       IF lastIndex = 0
       THEN ~isRangeMode' /\ sliderValue' = 0
       ELSE /\ isRangeMode'
            /\ startIndex' = Max(0, sliderValue - 1)
            /\ endIndex' = Min(lastIndex, sliderValue + 1)
            /\ MapReflectsRange'
            /\ listeners']_vars

\* C13: a timer is armed only from Idle and only by the Animate button; the
\* start leaves playback Playing on index 0, the selector in Single(0) also
\* when it was in range mode, the views on month 0 and exactly one timer armed.
C13_StartFromIdleOnly ==
  [][/\ (timers' \ timers # {} \/ (isAnimating' /\ ~isAnimating)) =>
          (AnimateClickStart /\ ~isAnimating /\ timers = {})
     /\ AnimateClickStart =>
          (/\ isAnimating'
           /\ ~isRangeMode'
           /\ sliderValue' = 0
           /\ ShowsOnlySliderMonth'
           /\ mapData' = filterDataByMonth(fullData, MonthAt(0))
                \/ mapData' = InWindow(fullData, MonthStart(MonthAt(0)),
                                       MonthLastDayMidnight(MonthAt(0)))
           /\ Cardinality(timers') = 1
           /\ intervalId' \in timers')]_vars

\* C13 witness: playback has just been started on a dataset of several months
C13_Witness ==
  /\ isAnimating
  /\ Cardinality(timers) = 1
  /\ intervalId \in timers
  /\ ~isRangeMode
  /\ ~timerDetached
  /\ sliderValue = 0
  /\ lastIndex >= 1
  /\ mapData # <<>>
  /\ ShowsOnlySliderMonth

\* C14: a stop, by the button or by the tick on the last month, cancels the
\* timer, leaves playback Idle and changes neither the slider, the selector
\* mode nor a view; while playback is Idle no timer is armed, so no tick
\* fires: every tick happens while isAnimating.
C14_StopCancelsTimer ==
  /\ [](~isAnimating => timers = {})
  /\ [][/\ (isAnimating /\ ~isAnimating') =>
             (/\ timers' = {}
              /\ intervalId' = 0
              /\ UNCHANGED <<sliderValue, isRangeMode, viewVars>>)
        /\ Tick => isAnimating]_vars

\* C14 witness: playback was stopped on a month that is neither the first
\* nor the last, and the views show that month
C14_Witness ==
  /\ ~isAnimating
  /\ timers = {}
  /\ intervalId = 0
  /\ ~isRangeMode
  /\ sliderHandler = "collapse"
  /\ sliderValue > 0
  /\ sliderValue < lastIndex
  /\ mapData # <<>>
  /\ ShowsOnlySliderMonth

\* ------------------------------------------------------------------------
\* stopAnimation called in any playback state (lines 832-837)
\* ------------------------------------------------------------------------
\* a call that behaves as the button does: it starts playback when Idle
StopAnimationCallAsToggle == IF isAnimating THEN AnimateClickStop ELSE AnimateClickStart

\* a call of the global function stopAnimation()
StopAnimationCall ==
  /\ stopAnimation
  /\ UNCHANGED <<fullData, monthsArray, speedControl, isRangeMode, sliderVars, rangeVars,
                 selectedVars, viewVars, brushVars>>

NextStop ==
  \/ \E j \in 0..lastIndex : SliderInput(j)
  \/ SliderClick
  \/ SliderDblClick
  \/ AnimateClickStart
  \/ AnimateClickStop
  \/ Tick
  \/ \E label \in ClickableMagnitudes : ToggleMagnitude(label)
  \/ \E label \in ClickableDepths : ToggleDepth(label)
  \/ StopAnimationCall

SpecStop == Init /\ [][NextStop]_vars

\* C15: stopAnimation called while playback is Idle changes nothing:
\* isAnimating stays false, intervalId stays null, no timer appears, and the
\* selector and every view are as they were.
C15_StopWhenIdleIsNoOp ==
  [][(StopAnimationCall /\ ~isAnimating) =>
       (/\ ~isAnimating'
        /\ intervalId' = 0
        /\ timers' = {}
        /\ UNCHANGED vars)]_vars

\* C15 witness: playback is Idle after a run that was stopped on month 0, the
\* slider of that run still on the page
C15_Witness ==
  /\ ~isAnimating
  /\ intervalId = 0
  /\ timers = {}
  /\ ~isRangeMode
  /\ sliderHandler = "collapse"
  /\ sliderValue = 0
  /\ lastIndex >= 1
  /\ ShowsOnlySliderMonth

\* ------------------------------------------------------------------------
\* The page before and while the data file loads (lines 8-21, 24-137)
\* ------------------------------------------------------------------------
\* <input type="range" id="monthSlider" /> (index.html line 41): min 0,
\* max 100, value 50
DefaultSliderValue == 50

\* the state the top-level code of main.js leaves: the globals of lines 8-21,
\* no map, no chart, the slider of index.html without a listener
InitPage ==
  /\ fullData = <<>>
  /\ monthsArray = <<>>
  /\ isRangeMode = FALSE
  /\ isAnimating = FALSE
  /\ intervalId = 0
  /\ timers = {}
  /\ timerDetached = FALSE
  /\ timerValue = 0
  /\ timerDelay = 0
  /\ speedControl = DefaultSpeed
  /\ sliderValue = DefaultSliderValue
  /\ sliderHandler = "none"
  /\ collapseIndex = 0
  /\ startIndex = 0
  /\ endIndex = 0
  /\ activeThumb = "none"
  /\ listeners = FALSE
  /\ selectedMagnitudes = {}
  /\ selectedDepths = {}
  /\ currentFilteredDataset = <<>>
  /\ currentTimeFormat = "%Y-%m-%d"
  /\ currentTimeSeriesData = <<>>
  /\ currentTSStartDate = InvalidDate
  /\ currentTSEndDate = InvalidDate
  /\ mapData = <<>>
  /\ chartData = <<>>
  /\ magChart = getMagnitudeBuckets(<<>>)
  /\ depthChart = getDepthBuckets(<<>>)
  /\ currentViewData = <<>>
  /\ brushRect = NoRect
  /\ isBrushMode = FALSE
  /\ brushStart = NoPoint

\* the callback of d3.csv (lines 25-136) with the rows of the file.  With no
\* row monthsArray is empty and formatMonthLabel(undefined) raises at line 82,
\* after the slider was set up and before the map, the listeners and the bar
\* charts exist.
LoadCallback(data) ==
  /\ currentTSStartDate = InvalidDate
  /\ fullData' = data
  /\ monthsArray' = MonthsOf(data)
  /\ currentFilteredDataset' = InWindow(data, At(0, 1, 0), At(0, 31, 0))
  /\ currentTimeFormat' = TimeFormatFor(At(0, 1, 0), At(0, 31, 0))
  /\ currentTimeSeriesData' = TimeSeries(currentFilteredDataset', currentTimeFormat')
  /\ currentTSStartDate' = At(0, 1, 0)
  /\ currentTSEndDate' = At(0, 31, 0)
  /\ IF data = <<>>
     THEN /\ sliderValue' = 0
          /\ UNCHANGED <<sliderHandler, mapData, chartVars, currentViewData>>
     ELSE /\ sliderValue' = Len(monthsArray') - 1
          /\ sliderHandler' = "load"
          /\ mapData' = filterDataByMonth(data, monthsArray'[Len(monthsArray')])
          /\ updateAllCharts(mapData')
          /\ currentViewData' = mapData'
  /\ UNCHANGED <<isRangeMode, collapseIndex, rangeVars, timerVars, speedControl,
                 selectedVars, brushRect, isBrushMode, brushStart>>

\* "click" listener of #animation-btn (lines 840-842) while monthsArray is
\* empty: startAnimation calls collapseToSingleSlider(0), which resets
\* isRangeMode, replaces the controls by a new slider (min 0, max -1, value 0)
\* and raises in formatMonthLabel(undefined) at line 275, before line 817
AnimateClickNoMonths ==
  /\ ~isAnimating
  /\ monthsArray = <<>>
  /\ isRangeMode' = FALSE
  /\ sliderValue' = 0
  /\ sliderHandler' = "none"
  /\ UNCHANGED <<fullData, monthsArray, speedControl, collapseIndex, rangeVars, timerVars,
                 selectedVars, viewVars, brushVars>>

NextPage ==
  \/ \E data \in DataSets \cup {<<>>} : LoadCallback(data)
  \/ AnimateClickNoMonths
  \/ \E j \in 0..lastIndex : SliderInput(j)
  \/ (monthsArray # <<>> /\ AnimateClickStart)
  \/ AnimateClickStop
  \/ Tick
  \/ (monthsArray # <<>> /\ \E label \in ClickableMagnitudes : ToggleMagnitude(label))
  \/ (monthsArray # <<>> /\ \E label \in ClickableDepths : ToggleDepth(label))

SpecPage == InitPage /\ [][NextPage]_vars

\* C16: the Animate button pressed while the month index is empty arms no
\* timer, leaves playback Idle and leaves isRangeMode and the slider as they
\* were.
C16_StartWithoutMonthsRejected ==
  [][AnimateClickNoMonths =>
       (/\ timers' = {}
        /\ ~isAnimating'
        /\ intervalId' = 0
        /\ isRangeMode' = isRangeMode
        /\ sliderValue' = sliderValue)]_vars

\* ------------------------------------------------------------------------
\* The speed selector (index.html lines 51-55)
\* ------------------------------------------------------------------------
\* the user picks another option of #speed-control.  No script registers a
\* listener on the element: the pick changes the value of the select only.
SpeedChange(ms) ==
  /\ ms \in SpeedOptions
  /\ ms # speedControl
  /\ speedControl' = ms
  /\ UNCHANGED <<fullData, monthsArray, isRangeMode, sliderVars, rangeVars, timerVars,
                 selectedVars, viewVars, brushVars>>

NextSpeed ==
  \/ \E j \in 0..lastIndex : SliderInput(j)
  \/ SliderClick
  \/ SliderDblClick
  \/ AnimateClickStart
  \/ AnimateClickStop
  \/ Tick
  \/ \E ms \in SpeedOptions : SpeedChange(ms)

SpecSpeed == Init /\ [][NextSpeed]_vars

\* C17: a change of the playback speed while Playing leaves one timer armed
\* whose delay is the chosen interval and leaves the month index unchanged.
C17_SpeedChangeRestartsTimer ==
  [][(isAnimating /\ \E ms \in SpeedOptions : SpeedChange(ms)) =>
       (/\ isAnimating'
        /\ Cardinality(timers') = 1
        /\ timerDelay' = speedControl'
        /\ sliderValue' = sliderValue)]_vars

\* the map, the two bar charts and the timeline show the events of the
\* latest month of the data file
LatestMonthShown ==
  LET latest == filterDataByMonth(fullData, monthsArray[Len(monthsArray)])
  IN /\ mapData = latest
     /\ chartData = latest
     /\ magChart = getMagnitudeBuckets(latest)
     /\ depthChart = getDepthBuckets(latest)
     /\ currentTimeSeriesData = TimeSeries(latest, currentTimeFormat)

\* C18: when the load callback has run on a data file with events, the
\* selector is Single(lastIndex) and the map, the magnitude chart, the depth
\* chart and the timeline show the events of the most recent month.
C18_LoadShowsLatestMonth ==
  [][(\E data \in DataSets : LoadCallback(data)) =>
       (/\ ~isRangeMode'
        /\ sliderValue' = lastIndex'
        /\ LatestMonthShown')]_vars

\* ------------------------------------------------------------------------
\* The bar charts with every bar clickable (lines 459-475, 844-865)
\* ------------------------------------------------------------------------
\* the bars that are clicked
MagBars == {"3.0-3.9", "5.0-5.9", "8.0+"}
DepthBars == {"10-30km", "300km+"}

NextBuckets ==
  \/ \E label \in MagBars : BarClickMagnitude(label)
  \/ \E label \in DepthBars : BarClickDepth(label)
  \/ \E j \in 0..lastIndex : SliderInput(j)

SpecBuckets == Init /\ [][NextBuckets]_vars

\* the map shows no event whose label is outside a non-empty selection, and
\* the two bar charts are computed from the events on the map
ViewsFollowSelection ==
  /\ \A d \in Elems(mapData) :
       /\ selectedMagnitudes = {} \/ getMagnitudeLabel(d.mag) \in selectedMagnitudes
       /\ selectedDepths = {} \/ getDepthLabel(d.depth) \in selectedDepths
  /\ chartData = mapData
  /\ magChart = getMagnitudeBuckets(mapData)
  /\ depthChart = getDepthBuckets(mapData)

\* C19: a click on a bar adds its label to the set of its category when it
\* is absent and removes it when it is present, changes no other label of
\* that set, leaves the set of the other category alone, and redraws the views
\* for the new selection.
C19_BarClickTogglesOneLabel ==
  [][/\ \A label \in MagLabels : BarClickMagnitude(label) =>
          (/\ (label \in selectedMagnitudes') = (label \notin selectedMagnitudes)
           /\ selectedMagnitudes' \ {label} = selectedMagnitudes \ {label}
           /\ selectedDepths' = selectedDepths
           /\ ViewsFollowSelection')
     /\ \A label \in DepthLabels : BarClickDepth(label) =>
          (/\ (label \in selectedDepths') = (label \notin selectedDepths)
           /\ selectedDepths' \ {label} = selectedDepths \ {label}
           /\ selectedMagnitudes' = selectedMagnitudes
           /\ ViewsFollowSelection')]_vars

\* C19 witness: two magnitude labels and a depth label are selected and the
\* map shows events
C19_Witness ==
  /\ Cardinality(selectedMagnitudes) = 2
  /\ Cardinality(selectedDepths) >= 1
  /\ mapData # <<>>
  /\ ViewsFollowSelection

\* C20: when the map shows only events of the selector's window and of the
\* selected buckets, a brush commit leaves on the map only events of that
\* window and of those buckets that lie inside the brushed box, whatever was
\* done between arming brush mode and the commit.
C20_BrushCommitUsesCurrentFilters ==
  [][(/\ MapMouseUp
      /\ brushRect # NoRect
      /\ \A d \in Elems(mapData) : PassesAllPredicates(d))
       => \A d \in Elems(mapData') : PassesAllPredicates(d)']_vars

\* C21: when the map shows only events of the selector's window and of the
\* selected buckets, Reset Map removes the brush box and leaves on the map
\* only events of the window and the bucket selection that are current at the
\* reset, whether or not brush mode was armed and whether or not the month
\* changed since.
C21_ResetShowsCurrentFilters ==
  [][(/\ ResetMap
      /\ \A d \in Elems(mapData) : PassesAllPredicates(d))
       => (/\ brushRect' = NoRect
           /\ \A d \in Elems(mapData') : PassesAllPredicates(d)')]_vars

\* ------------------------------------------------------------------------
\* The bar charts and the timeline of a loaded file, for any magnitudes and
\* depths (lines 29-46, 135, 738-788)
\* ------------------------------------------------------------------------
\* +d.mag and +d.depth of the texts "1e999" and "-1e999"; every comparison
\* with a number goes the way it goes for a number beyond every threshold
Infinity == 1000000
NegInfinity == 0 - 2000000

IsFinite(x) == x \notin {NaN, Infinity, NegInfinity}

\* number of events of a file
HistLen == 2

\* the magnitudes and depths of the rows: the bucket boundaries, their
\* neighbours and the values that are not finite
HistSamples ==
  {<<mag, 5>> : mag \in {3 * MagScale - 1, 3 * MagScale, 4 * MagScale - 1, 4 * MagScale,
                         5 * MagScale, 6 * MagScale, 7 * MagScale, 8 * MagScale - 1,
                         8 * MagScale, NaN, Infinity, NegInfinity}}
  \cup {<<5 * MagScale, depth>> : depth \in {0 - 1, 0, 9, 10, 29, 30, 69, 70, 299, 300,
                                             NaN, Infinity, NegInfinity}}
  \cup {<<NaN, NaN>>}

\* files of HistLen rows, row i dated day i of January 2015
HistDataSets ==
  {[i \in 1..HistLen |-> Ev(i, At(0, i, 0), rows[i][1], rows[i][2], 0, 0)] :
     rows \in [1..HistLen -> HistSamples]}

NextHist == \E data \in HistDataSets : LoadCallback(data)

SpecHist == InitPage /\ [][NextHist]_vars

\* the bucket a finite magnitude >= 3 belongs to: [3,4), .., [7,8), [8,inf)
MagnitudeInterval(mag) == MagLabelOrder[Min(6, (mag \div MagScale) - 2)]

\* the events of chartData a magnitude bucket has to count
CountedMagnitudes(label) ==
  {i \in DOMAIN chartData :
     /\ IsFinite(chartData[i].mag)
     /\ chartData[i].mag >= 3 * MagScale
     /\ MagnitudeInterval(chartData[i].mag) = label}

\* C22: each of the six magnitude buckets counts the events with a finite
\* magnitude inside its interval, 8.0 in "8.0+", and nothing else: an event
\* with finite magnitude >= 3 is counted once, a magnitude below 3 or not
\* finite in no bucket, and the six counts sum to the number of events with
\* finite magnitude >= 3.
C22_MagnitudeBucketsPartition ==
  \A label \in MagLabels : magChart[label] = Cardinality(CountedMagnitudes(label))

\* the bucket a finite depth >= 0 belongs to: [0,10), [10,30), [30,70),
\* [70,300), [300,inf)
DepthInterval(depth) ==
  DepthLabelOrder[1 + (IF depth >= 10 THEN 1 ELSE 0) + (IF depth >= 30 THEN 1 ELSE 0)
                    + (IF depth >= 70 THEN 1 ELSE 0) + (IF depth >= 300 THEN 1 ELSE 0)]

\* the events of chartData a depth bucket has to count
CountedDepths(label) ==
  {i \in DOMAIN chartData :
     /\ IsFinite(chartData[i].depth)
     /\ chartData[i].depth >= 0
     /\ DepthInterval(chartData[i].depth) = label}

\* C23: each of the five depth buckets counts the events with a finite depth
\* inside its interval, the boundaries 10, 30, 70 and 300 in the upper bucket,
\* and nothing else: a negative depth and a depth that is not finite are
\* counted in no bucket.
C23_DepthBucketsPartition ==
  \A label \in DepthLabels : depthChart[label] = Cardinality(CountedDepths(label))

\* magnitude and depth of the event are both finite
AllFinite(d) == IsFinite(d.mag) /\ IsFinite(d.depth)

\* C24: an event whose magnitude or depth is not finite is on the map and in
\* the filtered set, and no bar of the magnitude chart, no bar of the depth
\* chart and no point of the timeline counts it.
C24_NonFiniteInNoHistogram ==
  /\ mapData = fullData
  /\ chartData = fullData
  /\ \A label \in MagLabels :
       magChart[label] =
         Cardinality({i \in CountedMagnitudes(label) : AllFinite(chartData[i])})
  /\ \A label \in DepthLabels :
       depthChart[label] =
         Cardinality({i \in CountedDepths(label) : AllFinite(chartData[i])})
  /\ currentTimeSeriesData =
       TimeSeries(SelectSeq(currentFilteredDataset, AllFinite), currentTimeFormat)

\* C25: whenever the timeline has a window, its grouping is the one the span
\* of that very window gives: daily up to 31 days, monthly above 31 and up to
\* 730 days, yearly above 730 days.
C25_GranularityFromSpan ==
  (currentTSStartDate # InvalidDate /\ currentTSEndDate # InvalidDate) =>
    LET span == currentTSEndDate - currentTSStartDate
    IN /\ (span <= 31 * TicksPerDay) => currentTimeFormat = "%Y-%m-%d"
       /\ (span > 31 * TicksPerDay /\ span <= 730 * TicksPerDay) => currentTimeFormat = "%Y-%m"
       /\ (span > 730 * TicksPerDay) => currentTimeFormat = "%Y"

\* C25 witness: a window of exactly 730 days is grouped by month
C25_Witness ==
  /\ currentTSStartDate = At(0, 1, 0)
  /\ currentTSEndDate - currentTSStartDate = 730 * TicksPerDay
  /\ currentTimeFormat = "%Y-%m"
  /\ currentFilteredDataset # <<>>

RECURSIVE SumCounts(_)
SumCounts(series) ==
  IF series = <<>> THEN 0 ELSE Head(series).count + SumCounts(Tail(series))

WindowEvents ==
  InWindow(fullData, currentTSStartDate, currentTSEndDate)

WindowKeys ==
  {KeyOf(d.time, currentTimeFormat) : d \in Elems(WindowEvents)}

\* C26: the timeline series has exactly one entry for each period key that
\* occurs among the events of the timeline window, carrying the number of
\* window events with that key; the entries are in strictly ascending order
\* of period start; and the counts add up to the number of events of the window.
C26_SeriesGroupsWindowEvents ==
  (currentTSStartDate # InvalidDate /\ currentTSEndDate # InvalidDate) =>
    /\ Len(currentTimeSeriesData) = Cardinality(WindowKeys)
    /\ \A k \in WindowKeys :
         \E i \in DOMAIN currentTimeSeriesData :
           /\ currentTimeSeriesData[i].date = KeyDate(k, currentTimeFormat)
           /\ currentTimeSeriesData[i].count =
                Cardinality({d \in Elems(WindowEvents) :
                               KeyOf(d.time, currentTimeFormat) = k})
    /\ \A i \in DOMAIN currentTimeSeriesData :
         i > 1 => currentTimeSeriesData[i - 1].date < currentTimeSeriesData[i].date
    /\ SumCounts(currentTimeSeriesData) = Len(WindowEvents)

\* C26 witness: a monthly series of two periods, one of them with several events
C26_Witness ==
  /\ currentTimeFormat = "%Y-%m"
  /\ currentTSStartDate # InvalidDate
  /\ currentTSStartDate < currentTSEndDate
  /\ Len(currentTimeSeriesData) = 2
  /\ currentTimeSeriesData[2].count > 1
  /\ Len(WindowEvents) > 2

MonthIndexMatchesEvents ==
  /\ \A i \in DOMAIN monthsArray : i > 1 => monthsArray[i - 1] < monthsArray[i]
  /\ \A d \in Elems(fullData) : \E i \in DOMAIN monthsArray : monthsArray[i] = MonthOf(d.time)
  /\ \A i \in DOMAIN monthsArray : \E d \in Elems(fullData) : MonthOf(d.time) = monthsArray[i]

\* C27: the month index is strictly ascending (so it has no duplicate month),
\* holds the month of every loaded event and no month without an event, and
\* no operation after the load changes it.
C27_MonthIndexFixedAndExact ==
  /\ [](MonthIndexMatchesEvents)
  /\ [][monthsArray' = monthsArray /\ fullData' = fullData]_vars

\* C27 witness: a data set whose months leave a gap, after the controls have
\* been expanded to the range slider and a bucket has been selected
C27_Witness ==
  /\ Len(monthsArray) = 2
  /\ monthsArray[2] = monthsArray[1] + 2
  /\ isRangeMode
  /\ selectedMagnitudes # {}

\* C28: a step that applies the time window already in force leaves the
\* filtered set, the granularity and the timeline series as the first
\* application left them.
C28_SameWindowTwiceChangesNothing ==
  [][(currentTSStartDate' = currentTSStartDate /\ currentTSEndDate' = currentTSEndDate)
       => /\ currentFilteredDataset' = currentFilteredDataset
          /\ currentTimeFormat' = currentTimeFormat
          /\ currentTimeSeriesData' = currentTimeSeriesData]_vars

\* C28 witness: a window other than the one of the load has been applied and
\* its series has several periods
C28_Witness ==
  /\ currentTSStartDate = At(0, 31, 0)
  /\ currentTSEndDate = At(3, 30, 1)
  /\ Len(currentTimeSeriesData) > 1
  /\ Len(currentFilteredDataset) > Len(currentTimeSeriesData)

\* what one run of applyFilters leaves behind, as values: the array put on
\* the map and in the bar charts, the array updateEarthquakeChart stores in
\* currentFilteredDataset, and the timeline window
FilterOutcome(base, magnitudes, depths) ==
  LET filtered == BucketFilter(base, magnitudes, depths)
      startDate == FilterWindowStart(filtered)
      endDate == FilterWindowEnd(filtered)
  IN [shown |-> filtered,
      base |-> InWindow(fullData, startDate, endDate),
      startDate |-> startDate,
      endDate |-> endDate]

\* every bar click leaves exactly the values of FilterOutcome
FilterOutcomeIsBarClick ==
  [][/\ \A label \in MagLabels : BarClickMagnitude(label) =>
          LET r == FilterOutcome(currentFilteredDataset, selectedMagnitudes', selectedDepths)
          IN <<mapData', chartData', currentFilteredDataset', currentTSStartDate', currentTSEndDate'>>
               = <<r.shown, r.shown, r.base, r.startDate, r.endDate>>
     /\ \A label \in DepthLabels : BarClickDepth(label) =>
          LET r == FilterOutcome(currentFilteredDataset, selectedMagnitudes, selectedDepths')
          IN <<mapData', chartData', currentFilteredDataset', currentTSStartDate', currentTSEndDate'>>
               = <<r.shown, r.shown, r.base, r.startDate, r.endDate>>]_vars

\* the views after two clicks on the same magnitude bar
TwiceMagnitude(label) ==
  LET first == ToggleLabel(selectedMagnitudes, label)
      once == FilterOutcome(currentFilteredDataset, first, selectedDepths)
  IN [selected |-> ToggleLabel(first, label)] @@
     FilterOutcome(once.base, ToggleLabel(first, label), selectedDepths)

\* the views after two clicks on the same depth bar
TwiceDepth(label) ==
  LET first == ToggleLabel(selectedDepths, label)
      once == FilterOutcome(currentFilteredDataset, selectedMagnitudes, first)
  IN [selected |-> ToggleLabel(first, label)] @@
     FilterOutcome(once.base, selectedMagnitudes, ToggleLabel(first, label))

RestoresViews(twice) ==
  /\ twice.shown = mapData
  /\ getMagnitudeBuckets(twice.shown) = magChart
  /\ getDepthBuckets(twice.shown) = depthChart
  /\ twice.startDate = currentTSStartDate
  /\ twice.endDate = currentTSEndDate

\* C29: from a state whose map shows the array the filters start from, two
\* clicks in a row on the same bar give back the selected set, the displayed
\* set, the two histograms and the timeline window of that state.
C29_DoubleToggleRestores ==
  (mapData = currentFilteredDataset) =>
    /\ \A label \in MagBars :
         /\ TwiceMagnitude(label).selected = selectedMagnitudes
         /\ RestoresViews(TwiceMagnitude(label))
    /\ \A label \in DepthBars :
         /\ TwiceDepth(label).selected = selectedDepths
         /\ RestoresViews(TwiceDepth(label))

\* the selected set alone does come back after two clicks on the same bar
DoubleToggleRestoresSelection ==
  /\ \A label \in MagBars : TwiceMagnitude(label).selected = selectedMagnitudes
  /\ \A label \in DepthBars : TwiceDepth(label).selected = selectedDepths

\* the array on the map after the slider is moved to index j with nothing
\* selected and the bar of a magnitude label is clicked next
PickThenToggleShown(j, label) ==
  LET startDate == MonthStart(MonthAt(j))
      endDate == MonthLastDayMidnight(MonthAt(j))
  IN FilterOutcome(InWindow(fullData, startDate, endDate), {label}, {}).shown

\* the slider stands on index j, exactly one magnitude label is selected, no
\* depth label and no brush box
PredicateStateIs(j, label) ==
  /\ ~isRangeMode
  /\ sliderValue = j
  /\ selectedMagnitudes = {label}
  /\ selectedDepths = {}
  /\ ~BrushActive

\* C30: the displayed set and the histograms depend on the predicate state
\* only.  The state "slider on index j, magnitude label selected, nothing else"
\* is reached by moving the slider to j and clicking the bar, so whatever
\* sequence of operations ends in this predicate state shows the same array
\* and the same two histograms as that sequence does.
C30_ViewsDependOnPredicateStateOnly ==
  \A j \in 0..lastIndex : \A label \in MagBars :
    PredicateStateIs(j, label) =>
      /\ mapData = PickThenToggleShown(j, label)
      /\ magChart = getMagnitudeBuckets(PickThenToggleShown(j, label))
      /\ depthChart = getDepthBuckets(PickThenToggleShown(j, label))

\* the sequence "move the slider, then click the bar" does end in the state
\* C30 compares with
PickThenToggleReached ==
  /\ fullData = DataScenario
  /\ PredicateStateIs(1, "5.0-5.9")
  /\ mapData = PickThenToggleShown(1, "5.0-5.9")
  /\ Len(mapData) = 2

\* the sequence "click the bar, then move the slider" ends in the same
\* predicate state with every event of the month on the map
ToggleThenPickReached ==
  /\ fullData = DataScenario
  /\ PredicateStateIs(1, "5.0-5.9")
  /\ Len(mapData) = 4

\* C31: whenever the selector is in range mode the listeners of the two
\* thumbs and of the document are registered, so that a drag can move a thumb
\* and bring the range back to a single month.
C31_RangeModeHasThumbListeners ==
  isRangeMode => listeners

\* ------------------------------------------------------------------------
\* The range slider of the draft part_001 (lines 142-236): update() has no
\* assignment from `filteredData`, so it returns, the range can collapse and
\* the listeners of lines 207-235 are registered
\* ------------------------------------------------------------------------
\* update() of the draft (part_001 lines 177-200); the views of Range(s, s)
\* drawn before the collapse are overwritten by collapseToSingleSlider
updateDraft(s, e, mode, slider) ==
  LET startDate == MonthStart(MonthAt(s))
      endDate == MonthStart(MonthAt(e))
      filtered == InWindow(fullData, startDate, endDate)
  IN IF s = e
     THEN collapseToSingleSlider(s)
     ELSE /\ isRangeMode' = mode
          /\ sliderValue' = slider
          /\ setData(filtered)
          /\ updateEarthquakeChart(startDate, endDate)
          /\ updateAllCharts(filtered)
          /\ UNCHANGED <<sliderHandler, collapseIndex>>

\* expandToCustomRangeSlider of the draft: a new closure with its own
\* startIndex, endIndex and activeThumb = null
expandDraft ==
  /\ startIndex' = SeedStart(sliderValue)
  /\ endIndex' = SeedEnd(sliderValue)
  /\ updateDraft(startIndex', endIndex', TRUE, NoSlider)
  /\ activeThumb' = "none"
  /\ listeners' = TRUE
  /\ DetachTimerSlider
  /\ UNCHANGED <<fullData, monthsArray, speedControl, isAnimating, intervalId, timers,
                 timerDelay, selectedVars, brushVars>>

\* "click" listener of the slider of the load
SliderClickDraft ==
  /\ ~isRangeMode
  /\ sliderHandler = "load"
  /\ expandDraft

\* "dblclick" listener of the slider of collapseToSingleSlider
SliderDblClickDraft ==
  /\ ~isRangeMode
  /\ sliderHandler = "collapse"
  /\ expandDraft

\* the index the "mousemove" listener computes (part_001 lines 221-224).  After
\* a collapse the closure's track is no longer in the page and its
\* getBoundingClientRect() is all zeros: x / rect.width is Infinity for a
\* pointer right of the viewport's left edge, pct is 1
MouseMoveIndex(x) == IF isRangeMode THEN PointerIndex(x) ELSE lastIndex

\* "mousemove" listener of the document (part_001 lines 218-235): it tests
\* activeThumb only, and stays registered after a collapse
DocMouseMoveDraft(x) ==
  /\ listeners
  /\ activeThumb # "none"
  /\ LET idx == MouseMoveIndex(x) IN
       IF activeThumb = "start"
       THEN startIndex' = DragStartIndex(idx, endIndex) /\ endIndex' = endIndex
       ELSE endIndex' = DragEndIndex(idx, startIndex) /\ startIndex' = startIndex
  /\ updateDraft(startIndex', endIndex', isRangeMode, sliderValue)
  /\ IF isRangeMode' # isRangeMode THEN DetachTimerSlider
     ELSE UNCHANGED <<timerDetached, timerValue>>
  /\ UNCHANGED <<fullData, monthsArray, speedControl, activeThumb, listeners, isAnimating,
                 intervalId, timers, timerDelay, selectedVars, brushVars>>

NextDraft ==
  \/ \E j \in 0..lastIndex : SliderInput(j)
  \/ SliderClickDraft
  \/ SliderDblClickDraft
  \/ \E which \in {"start", "end"} : ThumbMouseDown(which)
  \/ DocMouseUp
  \/ \E x \in (0 - 1)..(TrackWidth + 1) : DocMouseMoveDraft(x)
  \/ \E label \in ClickableMagnitudes : ToggleMagnitude(label)

SpecDraft == Init /\ [][NextDraft]_vars

\* C32: while the selector is in single mode, a pointer move handled by the
\* listener of a range session changes neither the mode, nor the slider, nor
\* any view: no second collapse, no window of a range applied.
C32_NoRangeHandlerEffectInSingleMode ==
  [][((\E x \in (0 - 1)..(TrackWidth + 1) : DocMouseMoveDraft(x)) /\ ~isRangeMode)
       => UNCHANGED <<isRangeMode, sliderVars, viewVars>>]_vars

\* C33: while playback runs the selector is in single mode and the timer
\* drives the slider that is on the page.
C33_PlayingImpliesSingleOnScreen ==
  isAnimating => (~isRangeMode /\ ~timerDetached)

\* C34: while playback runs on the slider of the page, the index the slider
\* stands on changes only in a tick, and a tick moves it by one.
C34_PlaybackIndexMovesByTicksOnly ==
  [][(isAnimating /\ isAnimating' /\ ~isRangeMode /\ ~isRangeMode')
       => \/ sliderValue' = sliderValue
          \/ (Tick /\ sliderValue' = sliderValue + 1)]_vars

\* C35: isAnimating is true exactly when a timer handle is held, the handle
\* held is the armed timer, and at most one timer is armed.
C35_AnimatingIffOneTimer ==
  /\ isAnimating <=> (intervalId # 0)
  /\ timers = (IF isAnimating THEN {intervalId} ELSE {})
  /\ Cardinality(timers) <= 1

\* C35 witness: playback runs on the slider it installed, which has left
\* index 0, and the timer held is the one armed
C35_Witness ==
  /\ isAnimating
  /\ intervalId # 0
  /\ timers = {intervalId}
  /\ sliderHandler = "collapse"
  /\ sliderValue > 0

\* the selected labels are left alone by month picks, thumb drags and ticks
SelectorStepsKeepSelection ==
  [][((\E j \in 0..lastIndex : SliderInput(j))
        \/ (\E x \in (0 - 1)..(TrackWidth + 1) : DocMouseMove(x))
        \/ Tick)
       => UNCHANGED selectedVars]_vars

\* C36: a step that changes a selected-label set leaves the selector (mode,
\* slider index, thumb indices) and the window stored for the timeline as
\* they were; a month pick, a thumb drag and a tick leave both selected-label
\* sets as they were.
C36_ToggleAndSelectorFrames ==
  [][/\ (selectedVars' # selectedVars) =>
          UNCHANGED <<isRangeMode, sliderValue, startIndex, endIndex,
                      currentTSStartDate, currentTSEndDate>>
     /\ ((\E j \in 0..lastIndex : SliderInput(j))
           \/ (\E x \in (0 - 1)..(TrackWidth + 1) : DocMouseMove(x))
           \/ Tick)
          => UNCHANGED selectedVars]_vars

\* a bucket toggle leaves the selector alone
ToggleKeepsSelector ==
  [][(selectedVars' # selectedVars) =>
       UNCHANGED <<isRangeMode, sliderValue, startIndex, endIndex>>]_vars

\* C37: the stored base set is exactly the events of the full data set whose
\* time lies in the window stored for the timeline, in their order; so it
\* carries no restriction by magnitude, depth or position.
C37_BaseSetIsWindowOfFullData ==
  currentFilteredDataset = InWindow(fullData, currentTSStartDate, currentTSEndDate)

\* C37 witness: a magnitude label is selected, the map shows the selected
\* events only, and the stored base holds more events than the map
C37_Witness ==
  /\ selectedMagnitudes # {}
  /\ mapData # <<>>
  /\ \A d \in Elems(mapData) : getMagnitudeLabel(d.mag) \in selectedMagnitudes
  /\ \E d \in Elems(currentFilteredDataset) : getMagnitudeLabel(d.mag) \notin selectedMagnitudes
  /\ Len(mapData) < Len(currentFilteredDataset)

\* in brush mode a press followed by a release with no move in between (no
\* box on the map at the release) redraws no view and leaves no box
PressReleaseCommitsNothing ==
  [][(MapMouseUp /\ isBrushMode /\ brushRect = NoRect)
       => (UNCHANGED viewVars /\ brushRect' = NoRect)]_vars

\* C38: while brush mode is off, no pointer event on the map puts a box on
\* the map or changes what the map and the bar charts show; and in brush mode
\* a press followed by a release with no move in between redraws no view.
C38_BrushOffIsInert ==
  [][/\ (~isBrushMode /\ ((\E p \in PointerPoints : MapMouseDown(p))
                            \/ (\E p \in PointerPoints : MapMouseMove(p))
                            \/ MapMouseUp))
          => UNCHANGED <<brushRect, mapData, chartVars>>
     /\ (MapMouseUp /\ isBrushMode /\ brushRect = NoRect)
          => (UNCHANGED viewVars /\ brushRect' = NoRect)]_vars

\* C39: the count of every magnitude bar is the number of charted events
\* that getMagnitudeLabel gives the bar's label, and the count of every depth
\* bar the number of charted events that getDepthLabel gives the bar's label;
\* so an event is counted in no bar of a chart exactly when its label there
\* is "Other".
C39_CountsFollowLabels ==
  /\ \A label \in MagLabels :
       magChart[label] =
         Cardinality({i \in DOMAIN chartData : getMagnitudeLabel(chartData[i].mag) = label})
  /\ \A label \in DepthLabels :
       depthChart[label] =
         Cardinality({i \in DOMAIN chartData : getDepthLabel(chartData[i].depth) = label})

\* C39 witness: the chart was computed from a magnitude of exactly 8.0 and from
\* a value that has no label
C39_Witness ==
  /\ Len(chartData) = 2
  /\ chartData[1].mag = 8 * MagScale
  /\ getMagnitudeLabel(chartData[2].mag) = "Other"
  /\ magChart["8.0+"] = 1
  /\ depthChart["0-10km"] = 2

====
